---------------------------- MODULE Spec2Model ----------------------------
(***************************************************************************)
(* Model of .github/issues/parse-and-create-issues.py (and of the main of  *)
(* .github/issues/generate-issues.py): the markdown issue extractor, the   *)
(* phase table, and the sequential orchestration over the gh command-line  *)
(* tool.                                                                   *)
(*                                                                         *)
(* A document is a sequence of tokens.  Each token stands for one piece of *)
(* text that the regular expression of parse_markdown_file treats as a     *)
(* unit: the literals of the pattern ("ISSUE" is "### Issue", "COLON" is   *)
(* ":", "LABELS" is "**Labels:**", "BT" is a backtick, "EST" is            *)
(* "**Schätzung:**", "DESC" is "**Beschreibung:**"), the white space       *)
(* characters "SP" (a blank) and "NL" (a line break), the digits, the      *)
(* comma ("COMMA"), and words without white space, backtick or comma.      *)
(***************************************************************************)
EXTENDS Integers, Sequences, FiniteSets, TLC

VARIABLES
    script,         \* which of the two scripts runs
    pc,             \* position of the running function
    DRY_RUN,        \* the module-level switch of both scripts
    fileExists,     \* MARKDOWN_FILE.exists()
    doc,            \* content of MARKDOWN_FILE
    issues,         \* result of parse_markdown_file (ISSUES in generate-issues.py)
    parsed,         \* whether parse_markdown_file has been called
    prereq,         \* what the prerequisite checks found ("none" before them)
    ghCalls,        \* kinds of gh invocations made so far
    labelIdx,       \* create_all_labels: labels of LABELS attempted so far
    labelFailed,    \* create_all_labels: failed_count
    labelsOk,       \* result of create_all_labels ("none" before it returns)
    response,       \* the operator's answer to "Fortfahren? (j/n): "
    loopIdx,        \* main: records whose loop body has completed
    snapshots,      \* indices of the records given to save_issue_markdown, in order
    submitted,      \* indices of the records given to create_github_issue, in order
    outcomes,       \* what happened in create_github_issue, per submitted record
    success_count,  \* main: success_count
    failed_count,   \* main: failed_count
    tempFiles,      \* numbers n whose temp-<n>.md exists in ISSUES_DIR
    tracker,        \* labels of the repository REPO, as indices of TrackerLabels
    ghFaults,       \* gh label commands that failed during create_all_labels
    ret,            \* completion status of the script (-1 while it runs)
    phaseArg,       \* argument of a direct call of extract_phase
    phaseRes        \* its result

vars == <<script, pc, DRY_RUN, fileExists, doc, issues, parsed, prereq, ghCalls,
          labelIdx, labelFailed, labelsOk, response, loopIdx, snapshots,
          submitted, outcomes, success_count, failed_count, tempFiles, tracker,
          ghFaults, ret, phaseArg, phaseRes>>

---------------------------------------------------------------------------
(* Bounds of the model *)

\* largest number of issue blocks of a document given to the parser alone
MaxBlocks == 3
\* largest number of issue blocks of a document given to a run of main
MaxRunBlocks == 2
\* extract_phase is called on -PhaseMargin .. 110 + PhaseMargin
PhaseMargin == 6
\* largest number of external-tool failures during label creation
MaxLabelFaults == 2
\* largest number of failing gh label commands when create_all_labels is
\* called alone
MaxToolFaults == 1

---------------------------------------------------------------------------
(* Text helpers *)

IsWS(t) == t \in {"SP", "NL"}

DigitToks == <<"0", "1", "2", "3", "4", "5", "6", "7", "8", "9">>

IsDigit(t) == \E i \in 1..10 : DigitToks[i] = t

DigitVal(t) == (CHOOSE i \in 1..10 : DigitToks[i] = t) - 1

At(d, i) == IF i \in 1..Len(d) THEN d[i] ELSE "EOF"

Min(S) == CHOOSE x \in S : \A y \in S : x <= y

\* int(): the value of a run of decimal digits
RECURSIVE IntOf(_)
IntOf(s) ==
    IF s = <<>> THEN 0
    ELSE 10 * IntOf(SubSeq(s, 1, Len(s) - 1)) + DigitVal(s[Len(s)])

\* the decimal digits of n >= 0
RECURSIVE Digits(_)
Digits(n) ==
    IF n < 10 THEN <<DigitToks[n + 1]>>
    ELSE Digits(n \div 10) \o <<DigitToks[(n % 10) + 1]>>

\* str.strip(): drop leading and trailing characters of the set cs
StripChars(s, cs) ==
    LET keep == {i \in 1..Len(s) : s[i] \notin cs}
    IN  IF keep = {} THEN <<>>
        ELSE SubSeq(s, Min(keep), CHOOSE x \in keep : \A y \in keep : y <= x)

Strip(s) == StripChars(s, {"SP", "NL"})

\* str.split(','): the pieces between commas, in order
RECURSIVE SplitComma(_)
SplitComma(s) ==
    LET cs == {i \in 1..Len(s) : s[i] = "COMMA"}
    IN  IF cs = {} THEN <<s>>
        ELSE <<SubSeq(s, 1, Min(cs) - 1)>>
             \o SplitComma(SubSeq(s, Min(cs) + 1, Len(s)))


---------------------------------------------------------------------------
(* extract_phase *)

phase_map == <<
    [start |-> 1,   end |-> 5,   phase |-> "Phase 1: Foundation"],
    [start |-> 6,   end |-> 13,  phase |-> "Phase 2: Core Domain"],
    [start |-> 14,  end |-> 20,  phase |-> "Phase 3: Core Parsing"],
    [start |-> 21,  end |-> 26,  phase |-> "Phase 4: PAIN Parser"],
    [start |-> 27,  end |-> 32,  phase |-> "Phase 5: PACS Parser"],
    [start |-> 33,  end |-> 40,  phase |-> "Phase 6: CAMT Parser"],
    [start |-> 41,  end |-> 47,  phase |-> "Phase 7: Further Business Areas"],
    [start |-> 48,  end |-> 56,  phase |-> "Phase 8: Streaming & Pipeline"],
    [start |-> 57,  end |-> 62,  phase |-> "Phase 9: Schema Validation"],
    [start |-> 63,  end |-> 69,  phase |-> "Phase 10: XML Generation"],
    [start |-> 70,  end |-> 75,  phase |-> "Phase 11: Version Transformation"],
    [start |-> 76,  end |-> 85,  phase |-> "Phase 12: Testing"],
    [start |-> 86,  end |-> 91,  phase |-> "Phase 13: Performance"],
    [start |-> 92,  end |-> 96,  phase |-> "Phase 14: Observability"],
    [start |-> 97,  end |-> 100, phase |-> "Phase 15: DI & Configuration"],
    [start |-> 101, end |-> 107, phase |-> "Phase 16: Documentation"],
    [start |-> 108, end |-> 110, phase |-> "Phase 17: Code Generation (Optional)"] >>

\* the loop of extract_phase from entry i of the table on
RECURSIVE PhaseFrom(_, _)
PhaseFrom(i, issue_number) ==
    IF i > Len(phase_map) THEN "No Phase"
    ELSE IF phase_map[i].start <= issue_number /\ issue_number <= phase_map[i].end
         THEN phase_map[i].phase
         ELSE PhaseFrom(i + 1, issue_number)

\* a range test that excludes the upper end of each range
RECURSIVE PhaseFromOpenEnd(_, _)
PhaseFromOpenEnd(i, issue_number) ==
    IF i > Len(phase_map) THEN "No Phase"
    ELSE IF phase_map[i].start <= issue_number /\ issue_number < phase_map[i].end
         THEN phase_map[i].phase
         ELSE PhaseFromOpenEnd(i + 1, issue_number)

extract_phase_OpenEnd(issue_number) == PhaseFromOpenEnd(1, issue_number)

extract_phase(issue_number) == PhaseFrom(1, issue_number)

---------------------------------------------------------------------------
(* issue_pattern, as re.finditer(issue_pattern, content, re.DOTALL) matches *)
(* it: with re.DOTALL a dot matches a line break too, and every (.+?)      *)
(* takes the fewest characters that let the rest of the pattern match.     *)

\* length of the longest run of white space of d that starts at p
WSRun(d, p) ==
    CHOOSE k \in 0..Len(d) :
        /\ \A j \in 0..(k - 1) : IsWS(At(d, p + j))
        /\ ~IsWS(At(d, p + k))

\* length of the longest run of digits of d that starts at p
DigitRun(d, p) ==
    CHOOSE k \in 0..Len(d) :
        /\ \A j \in 0..(k - 1) : IsDigit(At(d, p + j))
        /\ ~IsDigit(At(d, p + k))

\* (?=\n### Issue |\Z) right after position e
BlockEndsAt(d, e) ==
    \/ e = Len(d)
    \/ At(d, e + 1) = "NL" /\ At(d, e + 2) = "ISSUE" /\ At(d, e + 3) = "SP"

\* \s+(.+?)(?=\n### Issue |\Z) from position p on: where group 5 starts.
\* \s+ takes the whole run of white space, and gives one character back
\* when nothing follows the run.  0 when there is no match.
DescStart(d, p) ==
    LET r == WSRun(d, p)
    IN  IF r >= 1 /\ p + r <= Len(d) THEN p + r
        ELSE IF r >= 2 THEN p + r - 1
        ELSE 0

\* where group 5 ends when it starts at s
DescEnd(d, s) == Min({e \in s..Len(d) : BlockEndsAt(d, e)})

\* ends of group 4 (estimate) when it starts at p
EstEnds(d, p) ==
    {e \in p..Len(d) :
        /\ At(d, e + 1) = "NL"
        /\ At(d, e + 2) = "NL"
        /\ At(d, e + 3) = "DESC"
        /\ DescStart(d, e + 4) # 0}

\* `\s+\n\*\*Schätzung:\*\*  right after position e: where group 4 starts
\* (0 when there is no match).  The run of white space after the backtick
\* has to end with the line break that precedes **Schätzung:**.
EstStart(d, e) ==
    LET r == WSRun(d, e + 2)
    IN  IF /\ At(d, e + 1) = "BT"
           /\ r >= 2
           /\ At(d, e + 1 + r) = "NL"
           /\ At(d, e + 2 + r) = "EST"
           /\ At(d, e + 3 + r) = "SP"
        THEN e + 4 + r
        ELSE 0

\* ends of group 3 (labels) when it starts at p
LabEnds(d, p) ==
    {e \in p..Len(d) :
        /\ At(d, e + 1) = "BT"
        /\ EstStart(d, e) # 0
        /\ EstEnds(d, EstStart(d, e)) # {}}

\* ends of group 2 (title) when it starts at p
TitleEnds(d, p) ==
    {e \in p..Len(d) :
        /\ At(d, e + 1) = "NL"
        /\ At(d, e + 2) = "NL"
        /\ At(d, e + 3) = "LABELS"
        /\ At(d, e + 4) = "SP"
        /\ At(d, e + 5) = "BT"
        /\ LabEnds(d, e + 6) # {}}

\* whether issue_pattern matches at position s
MatchesAt(d, s) ==
    /\ At(d, s) = "ISSUE"
    /\ At(d, s + 1) = "SP"
    /\ DigitRun(d, s + 2) >= 1
    /\ At(d, s + 2 + DigitRun(d, s + 2)) = "COLON"
    /\ At(d, s + 3 + DigitRun(d, s + 2)) = "SP"
    /\ TitleEnds(d, s + 4 + DigitRun(d, s + 2)) # {}

\* the match at s: its groups and its end
MatchAt(d, s) ==
    LET nd == DigitRun(d, s + 2)
        t0 == s + 4 + nd
        te == Min(TitleEnds(d, t0))
        l0 == te + 6
        le == Min(LabEnds(d, l0))
        e0 == EstStart(d, le)
        ee == Min(EstEnds(d, e0))
        b0 == DescStart(d, ee + 4)
        be == DescEnd(d, b0)
    IN  [g1 |-> SubSeq(d, s + 2, s + 1 + nd),
         g2 |-> SubSeq(d, t0, te),
         g3 |-> SubSeq(d, l0, le),
         g4 |-> SubSeq(d, e0, ee),
         g5 |-> SubSeq(d, b0, be),
         end |-> be]

\* re.finditer: the leftmost match at or after pos, then on from its end
RECURSIVE FindIter(_, _)
FindIter(d, pos) ==
    LET starts == {s \in pos..Len(d) : MatchesAt(d, s)}
    IN  IF starts = {} THEN <<>>
        ELSE LET m == MatchAt(d, Min(starts))
             IN  <<m>> \o FindIter(d, m.end + 1)

---------------------------------------------------------------------------
(* parse_markdown_file *)

\* a split that also drops a label equal to an earlier one
ParseLabelsDedup(labels_str) ==
    LET pieces == SplitComma(labels_str)
        ls == [i \in 1..Len(pieces) |-> StripChars(Strip(pieces[i]), {"BT"})]
        first == {i \in 1..Len(ls) : \A j \in 1..(i - 1) : ls[j] # ls[i]}
        Nth(k) == CHOOSE i \in first : Cardinality({j \in first : j < i}) = k - 1
    IN  [k \in 1..Cardinality(first) |-> ls[Nth(k)]]

\* [label.strip().strip('`') for label in labels_str.split(',')]
ParseLabels(labels_str) ==
    LET pieces == SplitComma(labels_str)
    IN  [i \in 1..Len(pieces) |-> StripChars(Strip(pieces[i]), {"BT"})]

format_issue_body(description, estimate) ==
    description \o <<"NL", "NL">> \o <<"NL", "RULE", "NL", "NL", "EST", "SP">> \o estimate

\* the Issue built from one match
IssueOf(m) ==
    LET number == IntOf(m.g1)
        estimate == Strip(m.g4)
        body_content == Strip(m.g5)
    IN  [number |-> number,
         title |-> Strip(m.g2),
         phase |-> extract_phase(number),
         labels |-> ParseLabels(Strip(m.g3)),
         estimate |-> estimate,
         description |-> body_content,
         body |-> format_issue_body(body_content, estimate)]

parse_markdown_file(exists, content) ==
    IF ~exists THEN <<>>
    ELSE LET ms == FindIter(content, 1)
         IN  [i \in 1..Len(ms) |-> IssueOf(ms[i])]


---------------------------------------------------------------------------
(* Documents: a preamble, then issue blocks.  The block at position i is   *)
(* written with its own title, estimate and description text, so that a    *)
(* record can be compared with the block it comes from.                    *)

\* what stands between the outermost backticks of a labels line
LabelTexts == <<
    <<"setup", "COMMA", "SP", "infrastructure", "COMMA", "SP", "priority:high">>,
    <<"setup", "BT", "COMMA", "SP", "BT", "infrastructure", "BT", "COMMA", "SP",
      "BT", "priority:high">>,
    <<"pain", "BT", "COMMA", "BT", "pain">>,
    <<"SP", "core", "SP", "COMMA", "di", "SP">> >>

Shapes == {"ok", "nolabels", "noestimate", "nodesc", "nonnumeric"}

RunShapes == {"ok", "nonnumeric"}

LabelTextAt(i, off) == LabelTexts[((i + off) % Len(LabelTexts)) + 1]

TitleAt(i) == <<"Title", "SP">> \o Digits(i)

EstimateAt(i) == Digits(i) \o <<"h">>

DescriptionAt(i) == <<"Text", "SP">> \o Digits(i)

\* the issue block at position i, numbered n
Block(i, n, shape, off) ==
    <<"ISSUE", "SP">> \o (IF shape = "nonnumeric" THEN <<"X">> ELSE Digits(n))
    \o <<"COLON", "SP">> \o TitleAt(i) \o <<"NL", "NL">>
    \o (IF shape = "nolabels" THEN <<>>
        ELSE <<"LABELS", "SP", "BT">> \o LabelTextAt(i, off)
             \o <<"BT", "SP", "SP", "NL">>)
    \o (IF shape = "noestimate" THEN <<>>
        ELSE <<"EST", "SP">> \o EstimateAt(i) \o <<"NL", "NL">>)
    \o (IF shape = "nodesc" THEN <<>> ELSE <<"DESC", "NL">>)
    \o DescriptionAt(i) \o <<"NL", "NL">>

RECURSIVE Blocks(_, _, _, _)
Blocks(k, ns, ss, off) ==
    IF k = 0 THEN <<>>
    ELSE Blocks(k - 1, ns, ss, off) \o Block(k, ns[k], ss[k], off)

Document(k, ns, ss, off) == <<"Heading", "NL", "NL">> \o Blocks(k, ns, ss, off)

\* the block at position i is numbered i, or 1 like the first block
Numberings(k) == {ns \in [1..k -> 1..k] : \A i \in 1..k : ns[i] \in {i, 1}}

Docs(shapes, maxBlocks) ==
    UNION {{Document(k, ns, ss, off) :
               ns \in Numberings(k), ss \in [1..k -> shapes],
               off \in IF k = 0 THEN {0} ELSE 0..(Len(LabelTexts) - 1)} :
           k \in 0..maxBlocks}

---------------------------------------------------------------------------
(* The label catalog *)

LABELS == <<
    "priority:high", "priority:medium", "priority:low",
    "pain", "pacs", "camt", "acmt", "admi", "remt", "head",
    "setup", "core", "domain", "parsing", "generation", "validation",
    "pipeline", "streaming", "transformation", "testing", "performance",
    "documentation", "samples", "di", "configuration", "observability",
    "error-handling", "tooling", "codegen", "ci-cd", "code-quality",
    "infrastructure", "dependencies", "interfaces", "models", "enums",
    "factory", "builder", "orchestration", "business-rules", "mapping", "mt",
    "test-data", "integration", "benchmarks", "memory", "logging", "metrics",
    "tracing", "health", "api-docs", "architecture", "schemas", "output",
    ".net8" >>

\* LABELS with each label's configuration, and the identifier once more as
\* the characters it is written with, for tests on text
LABEL_CONFIG == <<
    [name |-> "priority:high",
     chars |-> <<"p", "r", "i", "o", "r", "i", "t", "y", ":", "h", "i", "g",
               "h">>,
     color |-> <<"d", "7", "3", "a", "4", "a">>,
     description |-> <<"K", "r", "i", "t", "i", "s", "c", "h", " ", "f", "ü",
                     "r", " ", "M", "V", "P">>],
    [name |-> "priority:medium",
     chars |-> <<"p", "r", "i", "o", "r", "i", "t", "y", ":", "m", "e", "d",
               "i", "u", "m">>,
     color |-> <<"f", "b", "c", "a", "0", "4">>,
     description |-> <<"W", "i", "c", "h", "t", "i", "g", ",", " ", "a", "b",
                     "e", "r", " ", "n", "i", "c", "h", "t", " ", "b", "l",
                     "o", "c", "k", "i", "e", "r", "e", "n", "d">>],
    [name |-> "priority:low",
     chars |-> <<"p", "r", "i", "o", "r", "i", "t", "y", ":", "l", "o", "w">>,
     color |-> <<"0", "e", "8", "a", "1", "6">>,
     description |-> <<"N", "i", "c", "e", "-", "t", "o", "-", "h", "a", "v",
                     "e">>],
    [name |-> "pain",
     chars |-> <<"p", "a", "i", "n">>,
     color |-> <<"1", "d", "7", "6", "d", "b">>,
     description |-> <<"P", "A", "I", "N", " ", "B", "u", "s", "i", "n", "e",
                     "s", "s", " ", "A", "r", "e", "a">>],
    [name |-> "pacs",
     chars |-> <<"p", "a", "c", "s">>,
     color |-> <<"1", "d", "7", "6", "d", "b">>,
     description |-> <<"P", "A", "C", "S", " ", "B", "u", "s", "i", "n", "e",
                     "s", "s", " ", "A", "r", "e", "a">>],
    [name |-> "camt",
     chars |-> <<"c", "a", "m", "t">>,
     color |-> <<"1", "d", "7", "6", "d", "b">>,
     description |-> <<"C", "A", "M", "T", " ", "B", "u", "s", "i", "n", "e",
                     "s", "s", " ", "A", "r", "e", "a">>],
    [name |-> "acmt",
     chars |-> <<"a", "c", "m", "t">>,
     color |-> <<"1", "d", "7", "6", "d", "b">>,
     description |-> <<"A", "C", "M", "T", " ", "B", "u", "s", "i", "n", "e",
                     "s", "s", " ", "A", "r", "e", "a">>],
    [name |-> "admi",
     chars |-> <<"a", "d", "m", "i">>,
     color |-> <<"1", "d", "7", "6", "d", "b">>,
     description |-> <<"A", "D", "M", "I", " ", "B", "u", "s", "i", "n", "e",
                     "s", "s", " ", "A", "r", "e", "a">>],
    [name |-> "remt",
     chars |-> <<"r", "e", "m", "t">>,
     color |-> <<"1", "d", "7", "6", "d", "b">>,
     description |-> <<"R", "E", "M", "T", " ", "B", "u", "s", "i", "n", "e",
                     "s", "s", " ", "A", "r", "e", "a">>],
    [name |-> "head",
     chars |-> <<"h", "e", "a", "d">>,
     color |-> <<"1", "d", "7", "6", "d", "b">>,
     description |-> <<"B", "u", "s", "i", "n", "e", "s", "s", " ", "A", "p",
                     "p", "l", "i", "c", "a", "t", "i", "o", "n", " ", "H",
                     "e", "a", "d", "e", "r">>],
    [name |-> "setup",
     chars |-> <<"s", "e", "t", "u", "p">>,
     color |-> <<"0", "0", "7", "5", "c", "a">>,
     description |-> <<"P", "r", "o", "j", "e", "k", "t", "-", "S", "e", "t",
                     "u", "p">>],
    [name |-> "core",
     chars |-> <<"c", "o", "r", "e">>,
     color |-> <<"0", "0", "7", "5", "c", "a">>,
     description |-> <<"C", "o", "r", "e", "-", "I", "n", "f", "r", "a", "s",
                     "t", "r", "u", "k", "t", "u", "r">>],
    [name |-> "domain",
     chars |-> <<"d", "o", "m", "a", "i", "n">>,
     color |-> <<"0", "0", "7", "5", "c", "a">>,
     description |-> <<"D", "o", "m", "a", "i", "n", " ", "M", "o", "d", "e",
                     "l", "s">>],
    [name |-> "parsing",
     chars |-> <<"p", "a", "r", "s", "i", "n", "g">>,
     color |-> <<"0", "0", "7", "5", "c", "a">>,
     description |-> <<"P", "a", "r", "s", "i", "n", "g", "-", "F", "u", "n",
                     "k", "t", "i", "o", "n", "a", "l", "i", "t", "ä", "t">>],
    [name |-> "generation",
     chars |-> <<"g", "e", "n", "e", "r", "a", "t", "i", "o", "n">>,
     color |-> <<"0", "0", "7", "5", "c", "a">>,
     description |-> <<"X", "M", "L", "-", "G", "e", "n", "e", "r", "i", "e",
                     "r", "u", "n", "g">>],
    [name |-> "validation",
     chars |-> <<"v", "a", "l", "i", "d", "a", "t", "i", "o", "n">>,
     color |-> <<"0", "0", "7", "5", "c", "a">>,
     description |-> <<"V", "a", "l", "i", "d", "i", "e", "r", "u", "n",
                     "g">>],
    [name |-> "pipeline",
     chars |-> <<"p", "i", "p", "e", "l", "i", "n", "e">>,
     color |-> <<"0", "0", "7", "5", "c", "a">>,
     description |-> <<"C", "h", "a", "n", "n", "e", "l", "-", "P", "i", "p",
                     "e", "l", "i", "n", "e">>],
    [name |-> "streaming",
     chars |-> <<"s", "t", "r", "e", "a", "m", "i", "n", "g">>,
     color |-> <<"0", "0", "7", "5", "c", "a">>,
     description |-> <<"I", "A", "s", "y", "n", "c", "E", "n", "u", "m", "e",
                     "r", "a", "b", "l", "e", "/", "S", "t", "r", "e", "a",
                     "m", "i", "n", "g">>],
    [name |-> "transformation",
     chars |-> <<"t", "r", "a", "n", "s", "f", "o", "r", "m", "a", "t", "i",
               "o", "n">>,
     color |-> <<"0", "0", "7", "5", "c", "a">>,
     description |-> <<"V", "e", "r", "s", "i", "o", "n", "s", "-", "T", "r",
                     "a", "n", "s", "f", "o", "r", "m", "a", "t", "i", "o",
                     "n">>],
    [name |-> "testing",
     chars |-> <<"t", "e", "s", "t", "i", "n", "g">>,
     color |-> <<"0", "0", "7", "5", "c", "a">>,
     description |-> <<"T", "e", "s", "t", "s">>],
    [name |-> "performance",
     chars |-> <<"p", "e", "r", "f", "o", "r", "m", "a", "n", "c", "e">>,
     color |-> <<"0", "0", "7", "5", "c", "a">>,
     description |-> <<"P", "e", "r", "f", "o", "r", "m", "a", "n", "c", "e",
                     "/", "B", "e", "n", "c", "h", "m", "a", "r", "k", "s">>],
    [name |-> "documentation",
     chars |-> <<"d", "o", "c", "u", "m", "e", "n", "t", "a", "t", "i", "o",
               "n">>,
     color |-> <<"0", "0", "7", "5", "c", "a">>,
     description |-> <<"D", "o", "k", "u", "m", "e", "n", "t", "a", "t", "i",
                     "o", "n">>],
    [name |-> "samples",
     chars |-> <<"s", "a", "m", "p", "l", "e", "s">>,
     color |-> <<"0", "0", "7", "5", "c", "a">>,
     description |-> <<"B", "e", "i", "s", "p", "i", "e", "l", "-", "P", "r",
                     "o", "j", "e", "k", "t", "e">>],
    [name |-> "di",
     chars |-> <<"d", "i">>,
     color |-> <<"0", "0", "7", "5", "c", "a">>,
     description |-> <<"D", "e", "p", "e", "n", "d", "e", "n", "c", "y", " ",
                     "I", "n", "j", "e", "c", "t", "i", "o", "n">>],
    [name |-> "configuration",
     chars |-> <<"c", "o", "n", "f", "i", "g", "u", "r", "a", "t", "i", "o",
               "n">>,
     color |-> <<"0", "0", "7", "5", "c", "a">>,
     description |-> <<"K", "o", "n", "f", "i", "g", "u", "r", "a", "t", "i",
                     "o", "n">>],
    [name |-> "observability",
     chars |-> <<"o", "b", "s", "e", "r", "v", "a", "b", "i", "l", "i", "t",
               "y">>,
     color |-> <<"0", "0", "7", "5", "c", "a">>,
     description |-> <<"L", "o", "g", "g", "i", "n", "g", "/", "M", "e", "t",
                     "r", "i", "c", "s", "/", "T", "r", "a", "c", "i", "n",
                     "g">>],
    [name |-> "error-handling",
     chars |-> <<"e", "r", "r", "o", "r", "-", "h", "a", "n", "d", "l", "i",
               "n", "g">>,
     color |-> <<"0", "0", "7", "5", "c", "a">>,
     description |-> <<"E", "x", "c", "e", "p", "t", "i", "o", "n", "-", "H",
                     "a", "n", "d", "l", "i", "n", "g">>],
    [name |-> "tooling",
     chars |-> <<"t", "o", "o", "l", "i", "n", "g">>,
     color |-> <<"0", "0", "7", "5", "c", "a">>,
     description |-> <<"E", "n", "t", "w", "i", "c", "k", "l", "e", "r", "-",
                     "T", "o", "o", "l", "s">>],
    [name |-> "codegen",
     chars |-> <<"c", "o", "d", "e", "g", "e", "n">>,
     color |-> <<"0", "0", "7", "5", "c", "a">>,
     description |-> <<"C", "o", "d", "e", "-", "G", "e", "n", "e", "r", "i",
                     "e", "r", "u", "n", "g">>],
    [name |-> "ci-cd",
     chars |-> <<"c", "i", "-", "c", "d">>,
     color |-> <<"0", "0", "7", "5", "c", "a">>,
     description |-> <<"B", "u", "i", "l", "d", "-", "P", "i", "p", "e", "l",
                     "i", "n", "e">>],
    [name |-> "code-quality",
     chars |-> <<"c", "o", "d", "e", "-", "q", "u", "a", "l", "i", "t", "y">>,
     color |-> <<"0", "0", "7", "5", "c", "a">>,
     description |-> <<"C", "o", "d", "e", "-", "A", "n", "a", "l", "y", "s",
                     "e">>],
    [name |-> "infrastructure",
     chars |-> <<"i", "n", "f", "r", "a", "s", "t", "r", "u", "c", "t", "u",
               "r", "e">>,
     color |-> <<"0", "0", "7", "5", "c", "a">>,
     description |-> <<"I", "n", "f", "r", "a", "s", "t", "r", "u", "k", "t",
                     "u", "r">>],
    [name |-> "dependencies",
     chars |-> <<"d", "e", "p", "e", "n", "d", "e", "n", "c", "i", "e", "s">>,
     color |-> <<"0", "0", "7", "5", "c", "a">>,
     description |-> <<"D", "e", "p", "e", "n", "d", "e", "n", "c", "i", "e",
                     "s">>],
    [name |-> "interfaces",
     chars |-> <<"i", "n", "t", "e", "r", "f", "a", "c", "e", "s">>,
     color |-> <<"0", "0", "7", "5", "c", "a">>,
     description |-> <<"I", "n", "t", "e", "r", "f", "a", "c", "e", "s">>],
    [name |-> "models",
     chars |-> <<"m", "o", "d", "e", "l", "s">>,
     color |-> <<"0", "0", "7", "5", "c", "a">>,
     description |-> <<"M", "o", "d", "e", "l", "s">>],
    [name |-> "enums",
     chars |-> <<"e", "n", "u", "m", "s">>,
     color |-> <<"0", "0", "7", "5", "c", "a">>,
     description |-> <<"E", "n", "u", "m", "s">>],
    [name |-> "factory",
     chars |-> <<"f", "a", "c", "t", "o", "r", "y">>,
     color |-> <<"0", "0", "7", "5", "c", "a">>,
     description |-> <<"F", "a", "c", "t", "o", "r", "y", " ", "P", "a", "t",
                     "t", "e", "r", "n">>],
    [name |-> "builder",
     chars |-> <<"b", "u", "i", "l", "d", "e", "r">>,
     color |-> <<"0", "0", "7", "5", "c", "a">>,
     description |-> <<"B", "u", "i", "l", "d", "e", "r", " ", "P", "a", "t",
                     "t", "e", "r", "n">>],
    [name |-> "orchestration",
     chars |-> <<"o", "r", "c", "h", "e", "s", "t", "r", "a", "t", "i", "o",
               "n">>,
     color |-> <<"0", "0", "7", "5", "c", "a">>,
     description |-> <<"O", "r", "c", "h", "e", "s", "t", "r", "a", "t", "i",
                     "o", "n">>],
    [name |-> "business-rules",
     chars |-> <<"b", "u", "s", "i", "n", "e", "s", "s", "-", "r", "u", "l",
               "e", "s">>,
     color |-> <<"0", "0", "7", "5", "c", "a">>,
     description |-> <<"B", "u", "s", "i", "n", "e", "s", "s", " ", "R", "u",
                     "l", "e", "s">>],
    [name |-> "mapping",
     chars |-> <<"m", "a", "p", "p", "i", "n", "g">>,
     color |-> <<"0", "0", "7", "5", "c", "a">>,
     description |-> <<"M", "a", "p", "p", "i", "n", "g">>],
    [name |-> "mt",
     chars |-> <<"m", "t">>,
     color |-> <<"0", "0", "7", "5", "c", "a">>,
     description |-> <<"S", "W", "I", "F", "T", " ", "M", "T", " ", "M", "e",
                     "s", "s", "a", "g", "e", "s">>],
    [name |-> "test-data",
     chars |-> <<"t", "e", "s", "t", "-", "d", "a", "t", "a">>,
     color |-> <<"0", "0", "7", "5", "c", "a">>,
     description |-> <<"T", "e", "s", "t", " ", "D", "a", "t", "a">>],
    [name |-> "integration",
     chars |-> <<"i", "n", "t", "e", "g", "r", "a", "t", "i", "o", "n">>,
     color |-> <<"0", "0", "7", "5", "c", "a">>,
     description |-> <<"I", "n", "t", "e", "g", "r", "a", "t", "i", "o", "n",
                     " ", "T", "e", "s", "t", "s">>],
    [name |-> "benchmarks",
     chars |-> <<"b", "e", "n", "c", "h", "m", "a", "r", "k", "s">>,
     color |-> <<"0", "0", "7", "5", "c", "a">>,
     description |-> <<"B", "e", "n", "c", "h", "m", "a", "r", "k", "s">>],
    [name |-> "memory",
     chars |-> <<"m", "e", "m", "o", "r", "y">>,
     color |-> <<"0", "0", "7", "5", "c", "a">>,
     description |-> <<"M", "e", "m", "o", "r", "y", " ", "P", "r", "o", "f",
                     "i", "l", "i", "n", "g">>],
    [name |-> "logging",
     chars |-> <<"l", "o", "g", "g", "i", "n", "g">>,
     color |-> <<"0", "0", "7", "5", "c", "a">>,
     description |-> <<"L", "o", "g", "g", "i", "n", "g">>],
    [name |-> "metrics",
     chars |-> <<"m", "e", "t", "r", "i", "c", "s">>,
     color |-> <<"0", "0", "7", "5", "c", "a">>,
     description |-> <<"M", "e", "t", "r", "i", "c", "s">>],
    [name |-> "tracing",
     chars |-> <<"t", "r", "a", "c", "i", "n", "g">>,
     color |-> <<"0", "0", "7", "5", "c", "a">>,
     description |-> <<"T", "r", "a", "c", "i", "n", "g">>],
    [name |-> "health",
     chars |-> <<"h", "e", "a", "l", "t", "h">>,
     color |-> <<"0", "0", "7", "5", "c", "a">>,
     description |-> <<"H", "e", "a", "l", "t", "h", " ", "C", "h", "e", "c",
                     "k", "s">>],
    [name |-> "api-docs",
     chars |-> <<"a", "p", "i", "-", "d", "o", "c", "s">>,
     color |-> <<"0", "0", "7", "5", "c", "a">>,
     description |-> <<"A", "P", "I", " ", "D", "o", "c", "u", "m", "e", "n",
                     "t", "a", "t", "i", "o", "n">>],
    [name |-> "architecture",
     chars |-> <<"a", "r", "c", "h", "i", "t", "e", "c", "t", "u", "r", "e">>,
     color |-> <<"0", "0", "7", "5", "c", "a">>,
     description |-> <<"A", "r", "c", "h", "i", "t", "e", "c", "t", "u", "r",
                     "e">>],
    [name |-> "schemas",
     chars |-> <<"s", "c", "h", "e", "m", "a", "s">>,
     color |-> <<"0", "0", "7", "5", "c", "a">>,
     description |-> <<"X", "S", "D", " ", "S", "c", "h", "e", "m", "a",
                     "s">>],
    [name |-> "output",
     chars |-> <<"o", "u", "t", "p", "u", "t">>,
     color |-> <<"0", "0", "7", "5", "c", "a">>,
     description |-> <<"O", "u", "t", "p", "u", "t", "/", "W", "r", "i", "t",
                     "i", "n", "g">>],
    [name |-> ".net8",
     chars |-> <<".", "n", "e", "t", "8">>,
     color |-> <<"5", "1", "2", "b", "d", "4">>,
     description |-> <<".", "N", "E", "T", " ", "8", " ", "F", "e", "a", "t",
                     "u", "r", "e", "s">>]
    >>

---------------------------------------------------------------------------
(* create_github_label and create_all_labels *)

\* outcomes of one call of create_github_label: check_label_exists finds the
\* label; or it does not (or fails) and gh label create exits 0, exits
\* non-zero with "already exists", exits non-zero otherwise, times out, or
\* raises another exception
LabelOutcomes == {"exists", "created", "already_exists", "error", "timeout", "exception"}

\* the value create_github_label returns
LabelResult(o) == o \in {"exists", "created", "already_exists"}

\* the gh commands create_github_label runs
LabelCalls(o) == IF o = "exists" THEN {"label_list"} ELSE {"label_list", "label_create"}

---------------------------------------------------------------------------
(* The labels of the repository, and check_label_exists *)

\* labels a repository may hold before the script runs
DEFAULT_LABELS == <<
    [name |-> "bug",
     chars |-> <<"b", "u", "g">>,
     color |-> <<"d", "7", "3", "a", "4", "a">>,
     description |-> <<"S", "o", "m", "e", "t", "h", "i", "n", "g", " ", "i",
                     "s", "n", "'", "t", " ", "w", "o", "r", "k", "i", "n",
                     "g">>],
    [name |-> "documentation",
     chars |-> <<"d", "o", "c", "u", "m", "e", "n", "t", "a", "t", "i", "o",
               "n">>,
     color |-> <<"0", "0", "7", "5", "c", "a">>,
     description |-> <<"I", "m", "p", "r", "o", "v", "e", "m", "e", "n", "t",
                     "s", " ", "o", "r", " ", "a", "d", "d", "i", "t", "i",
                     "o", "n", "s", " ", "t", "o", " ", "d", "o", "c", "u",
                     "m", "e", "n", "t", "a", "t", "i", "o", "n">>]
    >>

\* the labels the repository can hold: those of the catalog, as
\* gh label create makes them, and the ones above
TrackerLabels == LABEL_CONFIG \o DEFAULT_LABELS

\* the sets of labels the repository may hold at the start
InitialTrackers ==
    {c \cup d : c \in {{}, 1..3, 1..Len(LABEL_CONFIG)},
                d \in SUBSET ((Len(LABEL_CONFIG) + 1)..Len(TrackerLabels))}

\* the row gh label list prints for a label: name, description, colour
Row(l) == l.chars \o <<"TAB">> \o l.description \o <<"TAB", "#">> \o l.color \o <<"NL">>

\* needle in text, on strings
Occurs(needle, text) ==
    \E p \in 1..(Len(text) - Len(needle) + 1) :
        SubSeq(text, p, p + Len(needle) - 1) = needle

\* for each label of the catalog, the rows its identifier occurs in; an
\* identifier holds no line break, so it occurs in the output of gh label list
\* exactly when it occurs in one of the rows
RowsNaming ==
    [i \in 1..Len(LABELS) |->
        {e \in DOMAIN TrackerLabels :
            Occurs(LABEL_CONFIG[i].chars, Row(TrackerLabels[e]))}]

\* check_label_exists for label i of the catalog: label_name in result.stdout
\* when gh label list exits 0, False when it does not or raises
check_label_exists(i, listOk, t) == listOk /\ RowsNaming[i] \cap t # {}

\* the repository holds a label of this name
HasLabel(name, t) == \E e \in t : TrackerLabels[e].name = name

\* the outcomes of create_github_label for label i on a repository holding t:
\* gh label create makes the label unless one of that name is there
OutcomesOn(i, listOk, t) ==
    IF check_label_exists(i, listOk, t) THEN {"exists"}
    ELSE {"error", "timeout", "exception"}
         \cup (IF HasLabel(LABELS[i], t) THEN {"already_exists"} ELSE {"created"})

\* the repository after that call
TrackerAfter(i, o, t) == IF o = "created" THEN t \cup {i} ELSE t

\* the gh label commands of that call that failed
Faults(listOk, o) ==
    (IF listOk THEN 0 ELSE 1)
    + (IF o \in {"error", "timeout", "exception"} THEN 1 ELSE 0)

---------------------------------------------------------------------------
(* create_github_issue *)

\* outcomes of one non-dry-run call: the temporary file cannot be written;
\* or gh issue create exits 0, exits non-zero, times out, or raises another
\* exception
IssueOutcomes == {"ok", "nonzero", "timeout", "exception", "write_error"}

\* a result that takes a timeout for a success
IssueResultTimeoutOk(dry, o) == dry \/ o \in {"ok", "timeout"}

\* the value create_github_issue returns
IssueResult(dry, o) == dry \/ o = "ok"

\* a call that runs gh issue create in a dry run too
IssueCallsInDryRun(dry, o) == IF o = "write_error" THEN {} ELSE {"issue_create"}

\* the gh commands create_github_issue runs
IssueCalls(dry, o) == IF dry \/ o = "write_error" THEN {} ELSE {"issue_create"}

\* the sets of temporary files a call of create_github_issue for record
\* number n may leave, in both scripts: temp_file.unlink(missing_ok=True) is
\* reached when subprocess.run returns, with either exit status; a timeout or
\* another exception of subprocess.run passes it by, and so does an error of
\* open or write, before or after the file has come into being
TempFilesAfter(dry, o, n, files) ==
    IF dry THEN {files}
    ELSE CASE o \in {"ok", "nonzero"} -> {files \ {n}}
           [] o \in {"timeout", "exception"} -> {files \cup {n}}
           [] o = "write_error" -> {files, files \cup {n}}

---------------------------------------------------------------------------
(* main of parse-and-create-issues.py *)

ParseScript == "parse-and-create-issues.py"

GenScript == "generate-issues.py"

\* the answers the operator may type at "Fortfahren? (j/n): "
Responses == {"j", "J", "n", "N", "", "ja"}

\* str.lower() on those answers
Lower(r) == IF r = "J" THEN "j" ELSE IF r = "N" THEN "n" ELSE r

\* a test that stops the run on the answer n only
DeclinedOnlyOnN(r) == Lower(r) = "n"

\* response.lower() != 'j'
Declined(r) == Lower(r) # "j"

\* a status that reports success whatever failed
ExitStatusZero(failed) == 0

\* return 0 if failed_count == 0 else 1
ExitStatus(failed) == IF failed = 0 THEN 0 ELSE 1

\* ISSUES of generate-issues.py
ISSUES == <<
    [number |-> 1,
     title |-> <<"Solution-Struktur für ISO20022 anlegen">>,
     labels |-> << <<"setup">>, <<"infrastructure">>, <<"priority:high">> >>,
     milestone |-> "Phase 1: Foundation",
     estimate |-> <<"1-2h">>] >>

Init ==
    /\ script \in {ParseScript, GenScript}
    /\ pc = IF script = ParseScript THEN "check_file" ELSE "gen_check_gh"
    /\ DRY_RUN \in BOOLEAN
    /\ fileExists \in IF script = ParseScript THEN BOOLEAN ELSE {FALSE}
    /\ doc \in IF fileExists THEN Docs(RunShapes, MaxRunBlocks) ELSE {<<>>}
    /\ issues = IF script = ParseScript THEN <<>> ELSE ISSUES
    /\ parsed = FALSE
    /\ prereq = "none"
    /\ ghCalls = {}
    /\ labelIdx = 0
    /\ labelFailed = 0
    /\ labelsOk = "none"
    /\ response = "none"
    /\ loopIdx = 0
    /\ snapshots = <<>>
    /\ submitted = <<>>
    /\ outcomes = <<>>
    /\ success_count = 0
    /\ failed_count = 0
    /\ tempFiles = {}
    /\ tracker = {}
    /\ ghFaults = 0
    /\ ret = -1
    /\ phaseArg = 0
    /\ phaseRes = "none"

\* check_prerequisites: MARKDOWN_FILE.exists()
CheckFile ==
    /\ pc = "check_file"
    /\ IF fileExists
       THEN pc' = "check_gh" /\ ret' = ret /\ prereq' = prereq
       ELSE pc' = "returned" /\ ret' = 1 /\ prereq' = "no_file"
    /\ UNCHANGED <<script, DRY_RUN, fileExists, doc, issues, parsed, ghCalls,
                   labelIdx, labelFailed, labelsOk, response, loopIdx,
                   snapshots, submitted, outcomes, success_count,
                   failed_count, tempFiles, tracker, ghFaults, phaseArg,
                   phaseRes>>

\* check_prerequisites: gh --version
CheckGhVersion ==
    /\ pc = "check_gh"
    /\ ghCalls' = ghCalls \cup {"version"}
    /\ \E found \in BOOLEAN :
          IF found
          THEN pc' = "check_auth" /\ ret' = ret /\ prereq' = prereq
          ELSE pc' = "returned" /\ ret' = 1 /\ prereq' = "no_gh"
    /\ UNCHANGED <<script, DRY_RUN, fileExists, doc, issues, parsed,
                   labelIdx, labelFailed, labelsOk, response, loopIdx,
                   snapshots, submitted, outcomes, success_count,
                   failed_count, tempFiles, tracker, ghFaults, phaseArg,
                   phaseRes>>

\* a check that goes on to parse whatever gh auth status says
CheckGhAuthUnchecked ==
    /\ pc = "check_auth"
    /\ ghCalls' = ghCalls \cup {"auth"}
    /\ \E loggedIn \in BOOLEAN :
          /\ pc' = "parse" /\ ret' = ret
          /\ prereq' = IF loggedIn THEN "ok" ELSE "no_auth"
    /\ UNCHANGED <<script, DRY_RUN, fileExists, doc, issues, parsed,
                   labelIdx, labelFailed, labelsOk, response, loopIdx,
                   snapshots, submitted, outcomes, success_count,
                   failed_count, tempFiles, tracker, ghFaults, phaseArg,
                   phaseRes>>

\* check_prerequisites: gh auth status, and main's test of the result
CheckGhAuth ==
    /\ pc = "check_auth"
    /\ ghCalls' = ghCalls \cup {"auth"}
    /\ \E loggedIn \in BOOLEAN :
          IF loggedIn
          THEN pc' = "parse" /\ ret' = ret /\ prereq' = "ok"
          ELSE pc' = "returned" /\ ret' = 1 /\ prereq' = "no_auth"
    /\ UNCHANGED <<script, DRY_RUN, fileExists, doc, issues, parsed,
                   labelIdx, labelFailed, labelsOk, response, loopIdx,
                   snapshots, submitted, outcomes, success_count,
                   failed_count, tempFiles, tracker, ghFaults, phaseArg,
                   phaseRes>>

\* main: issues = parse_markdown_file(MARKDOWN_FILE); if not issues: return 1
ParseMarkdown ==
    /\ pc = "parse"
    /\ issues' = parse_markdown_file(fileExists, doc)
    /\ parsed' = TRUE
    /\ IF issues' = <<>>
       THEN pc' = "returned" /\ ret' = 1
       ELSE pc' = (IF DRY_RUN THEN "save" ELSE "labels") /\ ret' = ret
    /\ UNCHANGED <<script, DRY_RUN, fileExists, doc, prereq, ghCalls,
                   labelIdx, labelFailed, labelsOk, response, loopIdx,
                   snapshots, submitted, outcomes, success_count,
                   failed_count, tempFiles, tracker, ghFaults, phaseArg,
                   phaseRes>>

\* create_all_labels: one pass of its loop, a call of create_github_label
CreateGithubLabel ==
    /\ pc = "labels"
    /\ labelIdx < Len(LABELS)
    /\ \E o \in LabelOutcomes :
          /\ ~LabelResult(o) => labelFailed < MaxLabelFaults
          /\ ghCalls' = ghCalls \cup LabelCalls(o)
          /\ labelFailed' = IF LabelResult(o) THEN labelFailed ELSE labelFailed + 1
    /\ labelIdx' = labelIdx + 1
    /\ UNCHANGED <<script, pc, DRY_RUN, fileExists, doc, issues, parsed,
                   prereq, labelsOk, response, loopIdx, snapshots, submitted,
                   outcomes, success_count, failed_count, tempFiles, tracker,
                   ghFaults, ret, phaseArg, phaseRes>>

\* create_all_labels: return failed_count == 0, and main's test of the result
CreateAllLabelsReturn ==
    /\ pc = "labels"
    /\ labelIdx = Len(LABELS)
    /\ labelsOk' = IF labelFailed = 0 THEN "True" ELSE "False"
    /\ labelFailed' = 0
    /\ pc' = IF labelsOk' = "True" THEN "save" ELSE "confirm"
    /\ UNCHANGED <<script, DRY_RUN, fileExists, doc, issues, parsed, prereq,
                   ghCalls, labelIdx, response, loopIdx, snapshots,
                   submitted, outcomes, success_count, failed_count,
                   tempFiles, tracker, ghFaults, ret, phaseArg, phaseRes>>

\* main: response = input("Fortfahren? (j/n): "), and the test of the answer
Confirm ==
    /\ pc = "confirm"
    /\ \E r \in Responses :
          /\ response' = r
          /\ IF Declined(r)
             THEN pc' = "returned" /\ ret' = 1
             ELSE pc' = "save" /\ ret' = ret
    /\ UNCHANGED <<script, DRY_RUN, fileExists, doc, issues, parsed, prereq,
                   ghCalls, labelIdx, labelFailed, labelsOk, loopIdx,
                   snapshots, submitted, outcomes, success_count,
                   failed_count, tempFiles, tracker, ghFaults, phaseArg,
                   phaseRes>>

\* a loop body that writes the snapshot of the first record only
SaveIssueMarkdownFirstOnly ==
    /\ pc = "save"
    /\ loopIdx < Len(issues)
    /\ snapshots' = IF loopIdx = 0 THEN Append(snapshots, loopIdx + 1) ELSE snapshots
    /\ pc' = "create"
    /\ UNCHANGED <<script, DRY_RUN, fileExists, doc, issues, parsed, prereq,
                   ghCalls, labelIdx, labelFailed, labelsOk, response,
                   loopIdx, submitted, outcomes, success_count, failed_count,
                   tempFiles, tracker, ghFaults, ret, phaseArg, phaseRes>>

\* main's loop: save_issue_markdown(issue)
SaveIssueMarkdown ==
    /\ pc = "save"
    /\ loopIdx < Len(issues)
    /\ snapshots' = Append(snapshots, loopIdx + 1)
    /\ pc' = "create"
    /\ UNCHANGED <<script, DRY_RUN, fileExists, doc, issues, parsed, prereq,
                   ghCalls, labelIdx, labelFailed, labelsOk, response,
                   loopIdx, submitted, outcomes, success_count, failed_count,
                   tempFiles, tracker, ghFaults, ret, phaseArg, phaseRes>>

\* main's loop: create_github_issue(issue), the counting of its result, and
\* the step to the next record
CreateGithubIssue ==
    /\ pc = "create"
    /\ \E o \in (IF DRY_RUN THEN {"ok"} ELSE IssueOutcomes) :
          /\ ghCalls' = ghCalls \cup IssueCalls(DRY_RUN, o)
          /\ outcomes' = Append(outcomes, o)
          /\ tempFiles' \in TempFilesAfter(DRY_RUN, o, issues[loopIdx + 1].number,
                                          tempFiles)
          /\ IF IssueResult(DRY_RUN, o)
             THEN success_count' = success_count + 1 /\ failed_count' = failed_count
             ELSE failed_count' = failed_count + 1 /\ success_count' = success_count
    /\ submitted' = Append(submitted, loopIdx + 1)
    /\ loopIdx' = loopIdx + 1
    /\ pc' = IF loopIdx' < Len(issues) THEN "save" ELSE "summary"
    /\ UNCHANGED <<script, DRY_RUN, fileExists, doc, issues, parsed, prereq,
                   labelIdx, labelFailed, labelsOk, response, snapshots,
                   tracker, ghFaults, ret, phaseArg, phaseRes>>

\* main: return 0 if failed_count == 0 else 1
Return ==
    /\ pc = "summary"
    /\ ret' = ExitStatus(failed_count)
    /\ pc' = "returned"
    /\ UNCHANGED <<script, DRY_RUN, fileExists, doc, issues, parsed, prereq,
                   ghCalls, labelIdx, labelFailed, labelsOk, response,
                   loopIdx, snapshots, submitted, outcomes, success_count,
                   failed_count, tempFiles, tracker, ghFaults, phaseArg,
                   phaseRes>>

---------------------------------------------------------------------------
(* main of generate-issues.py.  It returns None on every path and the      *)
(* script ends with status 0.                                              *)

\* main: gh --version
GenCheckGhVersion ==
    /\ pc = "gen_check_gh"
    /\ ghCalls' = ghCalls \cup {"version"}
    /\ \E found \in BOOLEAN :
          IF found
          THEN pc' = "gen_check_auth" /\ ret' = ret /\ prereq' = prereq
          ELSE pc' = "returned" /\ ret' = 0 /\ prereq' = "no_gh"
    /\ UNCHANGED <<script, DRY_RUN, fileExists, doc, issues, parsed,
                   labelIdx, labelFailed, labelsOk, response, loopIdx,
                   snapshots, submitted, outcomes, success_count,
                   failed_count, tempFiles, tracker, ghFaults, phaseArg,
                   phaseRes>>

\* main: gh auth status
GenCheckGhAuth ==
    /\ pc = "gen_check_auth"
    /\ ghCalls' = ghCalls \cup {"auth"}
    /\ \E loggedIn \in BOOLEAN :
          IF loggedIn
          THEN pc' = "gen_save" /\ ret' = ret /\ prereq' = "ok"
          ELSE pc' = "returned" /\ ret' = 0 /\ prereq' = "no_auth"
    /\ UNCHANGED <<script, DRY_RUN, fileExists, doc, issues, parsed,
                   labelIdx, labelFailed, labelsOk, response, loopIdx,
                   snapshots, submitted, outcomes, success_count,
                   failed_count, tempFiles, tracker, ghFaults, phaseArg,
                   phaseRes>>

\* main's loop: save_issue_markdown(issue); in a dry run the loop goes on
GenSaveIssueMarkdown ==
    /\ pc = "gen_save"
    /\ loopIdx < Len(issues)
    /\ snapshots' = Append(snapshots, loopIdx + 1)
    /\ IF DRY_RUN
       THEN pc' = pc /\ loopIdx' = loopIdx + 1
       ELSE pc' = "gen_create" /\ loopIdx' = loopIdx
    /\ UNCHANGED <<script, DRY_RUN, fileExists, doc, issues, parsed, prereq,
                   ghCalls, labelIdx, labelFailed, labelsOk, response,
                   submitted, outcomes, success_count, failed_count,
                   tempFiles, tracker, ghFaults, ret, phaseArg, phaseRes>>

\* main's loop: create_github_issue(issue), whose result main does not read
GenCreateGithubIssue ==
    /\ pc = "gen_create"
    /\ \E o \in IssueOutcomes \ {"timeout"} :
          /\ ghCalls' = ghCalls \cup IssueCalls(DRY_RUN, o)
          /\ outcomes' = Append(outcomes, o)
          /\ tempFiles' \in TempFilesAfter(DRY_RUN, o, issues[loopIdx + 1].number,
                                          tempFiles)
    /\ submitted' = Append(submitted, loopIdx + 1)
    /\ loopIdx' = loopIdx + 1
    /\ pc' = "gen_save"
    /\ UNCHANGED <<script, DRY_RUN, fileExists, doc, issues, parsed, prereq,
                   labelIdx, labelFailed, labelsOk, response, snapshots,
                   success_count, failed_count, tracker, ghFaults, ret,
                   phaseArg, phaseRes>>

\* main: the end of the loop
GenReturn ==
    /\ pc = "gen_save"
    /\ loopIdx = Len(issues)
    /\ ret' = 0
    /\ pc' = "returned"
    /\ UNCHANGED <<script, DRY_RUN, fileExists, doc, issues, parsed, prereq,
                   ghCalls, labelIdx, labelFailed, labelsOk, response,
                   loopIdx, snapshots, submitted, outcomes, success_count,
                   failed_count, tempFiles, tracker, ghFaults, phaseArg,
                   phaseRes>>

Next ==
    \/ CheckFile
    \/ CheckGhVersion
    \/ CheckGhAuth
    \/ ParseMarkdown
    \/ CreateGithubLabel
    \/ CreateAllLabelsReturn
    \/ Confirm
    \/ SaveIssueMarkdown
    \/ CreateGithubIssue
    \/ Return
    \/ GenCheckGhVersion
    \/ GenCheckGhAuth
    \/ GenSaveIssueMarkdown
    \/ GenCreateGithubIssue
    \/ GenReturn

Spec == Init /\ [][Next]_vars

---------------------------------------------------------------------------
(* parse_markdown_file called on its own *)

InitParse ==
    /\ script = ParseScript
    /\ pc = "parse_call"
    /\ DRY_RUN = FALSE
    /\ fileExists \in BOOLEAN
    /\ doc \in IF fileExists THEN Docs(Shapes, MaxBlocks) ELSE {<<>>}
    /\ issues = <<>>
    /\ parsed = FALSE
    /\ prereq = "none"
    /\ ghCalls = {}
    /\ labelIdx = 0
    /\ labelFailed = 0
    /\ labelsOk = "none"
    /\ response = "none"
    /\ loopIdx = 0
    /\ snapshots = <<>>
    /\ submitted = <<>>
    /\ outcomes = <<>>
    /\ success_count = 0
    /\ failed_count = 0
    /\ tempFiles = {}
    /\ tracker = {}
    /\ ghFaults = 0
    /\ ret = -1
    /\ phaseArg = 0
    /\ phaseRes = "none"

ParseCall ==
    /\ pc = "parse_call"
    /\ issues' = parse_markdown_file(fileExists, doc)
    /\ parsed' = TRUE
    /\ pc' = "parse_done"
    /\ UNCHANGED <<script, DRY_RUN, fileExists, doc, prereq, ghCalls,
                   labelIdx, labelFailed, labelsOk, response, loopIdx,
                   snapshots, submitted, outcomes, success_count,
                   failed_count, tempFiles, tracker, ghFaults, ret, phaseArg,
                   phaseRes>>

NextParse == ParseCall

SpecParse == InitParse /\ [][NextParse]_vars

---------------------------------------------------------------------------
(* extract_phase called on its own *)

InitPhase ==
    /\ script = ParseScript
    /\ pc = "phase_call"
    /\ DRY_RUN = FALSE
    /\ fileExists = FALSE
    /\ doc = <<>>
    /\ issues = <<>>
    /\ parsed = FALSE
    /\ prereq = "none"
    /\ ghCalls = {}
    /\ labelIdx = 0
    /\ labelFailed = 0
    /\ labelsOk = "none"
    /\ response = "none"
    /\ loopIdx = 0
    /\ snapshots = <<>>
    /\ submitted = <<>>
    /\ outcomes = <<>>
    /\ success_count = 0
    /\ failed_count = 0
    /\ tempFiles = {}
    /\ tracker = {}
    /\ ghFaults = 0
    /\ ret = -1
    /\ phaseArg \in (0 - PhaseMargin)..(110 + PhaseMargin)
    /\ phaseRes = "none"

PhaseCall ==
    /\ pc = "phase_call"
    /\ phaseRes' = extract_phase(phaseArg)
    /\ pc' = "phase_done"
    /\ UNCHANGED <<script, DRY_RUN, fileExists, doc, issues, parsed, prereq,
                   ghCalls, labelIdx, labelFailed, labelsOk, response,
                   loopIdx, snapshots, submitted, outcomes, success_count,
                   failed_count, tempFiles, tracker, ghFaults, ret, phaseArg>>

NextPhase == PhaseCall

SpecPhase == InitPhase /\ [][NextPhase]_vars

---------------------------------------------------------------------------
(* create_all_labels, called alone on a repository *)

InitLabels ==
    /\ script = ParseScript
    /\ pc = "labels_call"
    /\ DRY_RUN \in BOOLEAN
    /\ fileExists = FALSE
    /\ doc = <<>>
    /\ issues = <<>>
    /\ parsed = FALSE
    /\ prereq = "none"
    /\ ghCalls = {}
    /\ labelIdx = 0
    /\ labelFailed = 0
    /\ labelsOk = "none"
    /\ response = "none"
    /\ loopIdx = 0
    /\ snapshots = <<>>
    /\ submitted = <<>>
    /\ outcomes = <<>>
    /\ success_count = 0
    /\ failed_count = 0
    /\ tempFiles = {}
    /\ tracker \in InitialTrackers
    /\ ghFaults = 0
    /\ ret = -1
    /\ phaseArg = 0
    /\ phaseRes = "none"

\* create_all_labels: one pass of its loop, a call of create_github_label
\* with its call of check_label_exists
CreateGithubLabelOnTracker ==
    /\ pc = "labels_call"
    /\ labelIdx < Len(LABELS)
    /\ IF DRY_RUN
       THEN /\ ghCalls' = ghCalls /\ labelFailed' = labelFailed
            /\ tracker' = tracker /\ ghFaults' = ghFaults
       ELSE \E listOk \in BOOLEAN :
              \E o \in OutcomesOn(labelIdx + 1, listOk, tracker) :
                 /\ ghFaults + Faults(listOk, o) <= MaxToolFaults
                 /\ ghFaults' = ghFaults + Faults(listOk, o)
                 /\ ghCalls' = ghCalls \cup LabelCalls(o)
                 /\ labelFailed' = IF LabelResult(o) THEN labelFailed
                                   ELSE labelFailed + 1
                 /\ tracker' = TrackerAfter(labelIdx + 1, o, tracker)
    /\ labelIdx' = labelIdx + 1
    /\ UNCHANGED <<script, pc, DRY_RUN, fileExists, doc, issues, parsed,
                   prereq, labelsOk, response, loopIdx, snapshots, submitted,
                   outcomes, success_count, failed_count, tempFiles, ret,
                   phaseArg, phaseRes>>

\* create_all_labels: return failed_count == 0
CreateAllLabelsResult ==
    /\ pc = "labels_call"
    /\ labelIdx = Len(LABELS)
    /\ labelsOk' = IF labelFailed = 0 THEN "True" ELSE "False"
    /\ pc' = "labels_done"
    /\ UNCHANGED <<script, DRY_RUN, fileExists, doc, issues, parsed, prereq,
                   ghCalls, labelIdx, labelFailed, response, loopIdx,
                   snapshots, submitted, outcomes, success_count,
                   failed_count, tempFiles, tracker, ghFaults, ret, phaseArg,
                   phaseRes>>

NextLabels == CreateGithubLabelOnTracker \/ CreateAllLabelsResult

SpecLabels == InitLabels /\ [][NextLabels]_vars


---------------------------------------------------------------------------
(* Properties *)

\* <<1, 2, ..., n>>
Upto(n) == [i \in 1..n |-> i]

\* the submitted records whose submission failed
FailedSubmissions == {i \in 1..Len(outcomes) : outcomes[i] # "ok"}

\* C1: in main's loop of parse-and-create-issues.py a failed submission
\* (non-zero exit status, timeout, or another exception inside
\* create_github_issue) does not stop the loop: the records are attempted
\* one after the other whatever happened to the earlier ones, failed_count
\* is the number of records whose submission failed, and when the loop has
\* ended every parsed record was attempted and success_count + failed_count
\* is the number of parsed records.
C1_FailuresCountedLoopGoesOn ==
    script = ParseScript =>
        /\ submitted = Upto(Len(outcomes))
        /\ failed_count = Cardinality(FailedSubmissions)
        /\ success_count + failed_count = Len(submitted)
        /\ pc \in {"save", "create"} => Len(submitted) = loopIdx /\ loopIdx < Len(issues)
        /\ pc = "summary" =>
              /\ Len(submitted) = Len(issues)
              /\ success_count + failed_count = Len(issues)

\* C1 witness: the loop has ended after two records, the first of which
\* timed out and the second of which was submitted.
C1_Witness ==
    /\ script = ParseScript
    /\ pc = "summary"
    /\ outcomes = <<"timeout", "ok">>
    /\ failed_count = 1
    /\ success_count = 1

\* the prerequisite check of the run failed
PrerequisiteFailed == prereq \in {"no_file", "no_gh", "no_auth"}

\* the operator was asked after a failed label creation and did not answer
\* with j or J
StoppedAtPrompt == labelsOk = "False" /\ response \notin {"none", "j", "J"}

\* C2 as stated: main's completion status is non-zero if at least one
\* record's submission failed and zero in every other run, runs without a
\* parsed or submitted record included.
C2_Original ==
    (script = ParseScript /\ pc = "returned") =>
        ret = IF FailedSubmissions # {} THEN 1 ELSE 0

\* C2 as amended: main's completion status is 1 if at least one record's
\* submission failed, if a prerequisite failed, if no record was parsed, or
\* if the operator did not confirm after a failed label creation; it is 0
\* in every other run (all records submitted without a failure).
C2_StatusOfRun ==
    (script = ParseScript /\ pc = "returned") =>
        ret = IF \/ FailedSubmissions # {}
                 \/ PrerequisiteFailed
                 \/ parsed /\ issues = <<>>
                 \/ StoppedAtPrompt
              THEN 1 ELSE 0

\* C2 witness: a run that submitted two records, the second of which failed,
\* has returned 1.
C2_Witness ==
    /\ script = ParseScript
    /\ pc = "returned"
    /\ outcomes = <<"ok", "nonzero">>
    /\ ret = 1

\* C3 as stated: with DRY_RUN set, main never invokes gh, neither for the
\* version and login checks nor for labels or issues.
C3_Original == DRY_RUN => ghCalls = {}

\* C3 as amended: with DRY_RUN set, main invokes gh for the version check
\* and the login check of its prerequisites and for nothing else (no label
\* list, no label create, no issue create); a complete run then parses the
\* document and writes one snapshot per record.
C3_DryRunOnlyChecksPrerequisites ==
    DRY_RUN =>
        /\ ghCalls \subseteq {"version", "auth"}
        /\ labelIdx = 0
        /\ FailedSubmissions = {}
        /\ (pc = "returned" /\ prereq = "ok") => snapshots = Upto(Len(issues))

\* C3 witness: a complete dry run of parse-and-create-issues.py that wrote
\* two snapshots and invoked gh for the two prerequisite checks.
C3_Witness ==
    /\ DRY_RUN
    /\ script = ParseScript
    /\ pc = "returned"
    /\ ret = 0
    /\ snapshots = <<1, 2>>
    /\ ghCalls = {"version", "auth"}

\* C4: when a prerequisite fails (no source document, no gh, gh not logged
\* in), main has returned 1 without parsing the document, writing a
\* snapshot, creating a label or submitting an issue.
C4_PrerequisiteFailureStopsRun ==
    (script = ParseScript /\ PrerequisiteFailed) =>
        /\ pc = "returned"
        /\ ret = 1
        /\ ~parsed
        /\ issues = <<>>
        /\ snapshots = <<>>
        /\ submitted = <<>>
        /\ labelIdx = 0
        /\ ghCalls \subseteq {"version", "auth"}

\* C4 witness: the document is there and holds an issue block, gh is
\* installed but not logged in, and main has returned.
C4_Witness ==
    /\ script = ParseScript
    /\ prereq = "no_auth"
    /\ pc = "returned"
    /\ parse_markdown_file(fileExists, doc) # <<>>

\* position in the document of the block a record starts at
PosOf(issue) == DigitVal(issue.title[3])

\* records are handled one at a time, each snapshot before its submission,
\* and the records are in the order of their blocks
OneAtATimeInOrder ==
    /\ snapshots = Upto(Len(snapshots))
    /\ submitted = Upto(Len(submitted))
    /\ Len(submitted) <= Len(snapshots)
    /\ Len(snapshots) <= Len(submitted) + 1
    /\ Len(snapshots) <= Len(issues)
    /\ \A a, b \in 1..Len(issues) : a < b => PosOf(issues[a]) < PosOf(issues[b])

\* C5 as stated: in every run in which the prerequisites pass and a record
\* is parsed, each record is given once to save_issue_markdown and once to
\* create_github_issue, its snapshot first, one record at a time in document
\* order.
C5_Original ==
    script = ParseScript =>
        /\ OneAtATimeInOrder
        /\ (pc = "returned" /\ prereq = "ok" /\ issues # <<>>) =>
              snapshots = Upto(Len(issues)) /\ submitted = Upto(Len(issues))

\* C5 as amended: the same, in every run in which the prerequisites pass, a
\* record is parsed and main is not stopped at the confirmation prompt that
\* follows a failed label creation (in a run stopped there no record is
\* given to either step).
C5_EachRecordOnceInOrder ==
    script = ParseScript =>
        /\ OneAtATimeInOrder
        /\ (pc = "returned" /\ prereq = "ok" /\ issues # <<>>) =>
              IF StoppedAtPrompt
              THEN snapshots = <<>> /\ submitted = <<>>
              ELSE snapshots = Upto(Len(issues)) /\ submitted = Upto(Len(issues))

\* C5 witness: a label creation failed, the operator answered j, and main
\* has returned after handling two records.
C5_Witness ==
    /\ script = ParseScript
    /\ pc = "returned"
    /\ labelsOk = "False"
    /\ response = "j"
    /\ snapshots = <<1, 2>>
    /\ submitted = <<1, 2>>

\* C10 as stated: in a run without DRY_RUN no issue is submitted before
\* create_all_labels has attempted every label, and after a failed label
\* creation any answer other than j stops main: no snapshot, no submission,
\* return value 1.
C10_Original ==
    (script = ParseScript /\ ~DRY_RUN) =>
        /\ (submitted # <<>> \/ "issue_create" \in ghCalls) => labelIdx = Len(LABELS)
        /\ (labelsOk = "False" /\ response \notin {"none", "j"}) =>
              /\ snapshots = <<>>
              /\ submitted = <<>>
              /\ pc = "returned"
              /\ ret = 1

\* C10 as amended: the same with "any answer other than j or J": the answer
\* is compared in lower case, so J continues the run like j.
C10_LabelsFirstAndPromptStops ==
    (script = ParseScript /\ ~DRY_RUN) =>
        /\ (submitted # <<>> \/ "issue_create" \in ghCalls) => labelIdx = Len(LABELS)
        /\ (labelsOk = "False" /\ response \notin {"none", "j", "J"}) =>
              /\ snapshots = <<>>
              /\ submitted = <<>>
              /\ pc = "returned"
              /\ ret = 1

\* C10 witness: a label creation failed, the operator pressed return without
\* an answer, and main has returned 1.
C10_Witness ==
    /\ script = ParseScript
    /\ ~DRY_RUN
    /\ labelIdx = Len(LABELS)
    /\ labelsOk = "False"
    /\ response = ""
    /\ pc = "returned"
    /\ ret = 1

\* the entries of the phase table whose range holds n
RangesHolding(n) ==
    {i \in 1..Len(phase_map) : phase_map[i].start <= n /\ n <= phase_map[i].end}

\* C6: extract_phase looks the issue number up in a table of ascending
\* inclusive ranges that do not overlap: for 1 <= n <= 110 it returns the
\* label of the one range that holds n (Phase 1 for 5, Phase 2 for 6), and
\* for n <= 0 or n > 110 it returns "No Phase".
C6_PhaseOfNumber ==
    /\ \A i \in 1..Len(phase_map) : phase_map[i].start <= phase_map[i].end
    /\ \A i \in 1..(Len(phase_map) - 1) : phase_map[i].end < phase_map[i + 1].start
    /\ pc = "phase_done" =>
          /\ (1 <= phaseArg /\ phaseArg <= 110) =>
                /\ Cardinality(RangesHolding(phaseArg)) = 1
                /\ \A i \in RangesHolding(phaseArg) : phaseRes = phase_map[i].phase
          /\ (phaseArg <= 0 \/ phaseArg > 110) => phaseRes = "No Phase"
          /\ phaseArg = 5 => phaseRes = "Phase 1: Foundation"
          /\ phaseArg = 6 => phaseRes = "Phase 2: Core Domain"
          /\ phaseArg = 110 => phaseRes = "Phase 17: Code Generation (Optional)"

\* C6 witness: extract_phase was called on 5, the upper end of the first
\* range, and returned the label of Phase 1.
C6_Witness ==
    /\ pc = "phase_done"
    /\ phaseArg = 5
    /\ phaseRes = "Phase 1: Foundation"

\* the document of three blocks numbered 1, 2, 3 whose first and third
\* block have the fixed shape and whose second block has shape sh
OneTwoThree(sh, off) == Document(3, <<1, 2, 3>>, <<"ok", sh, "ok">>, off)

\* the record that belongs to the well-formed block at position i
OwnRecord(r, i, off) ==
    /\ r.number = i
    /\ r.title = TitleAt(i)
    /\ r.estimate = EstimateAt(i)
    /\ r.description = DescriptionAt(i)
    /\ r.labels = ParseLabels(Strip(LabelTextAt(i, off)))

\* C7: from a document of three blocks numbered 1, 2, 3 whose second block
\* is malformed (no labels line, no estimate line, no description marker,
\* or a number that is not numeric) parse_markdown_file returns two records,
\* number 1 then number 3, each with the title, labels, estimate and
\* description of its own block; from a document without a matching block
\* it returns the empty sequence.
C7_MalformedBlockOmitted ==
    pc = "parse_done" =>
        /\ \A sh \in Shapes \ {"ok"}, off \in 0..(Len(LabelTexts) - 1) :
              doc = OneTwoThree(sh, off) =>
                  /\ Len(issues) = 2
                  /\ OwnRecord(issues[1], 1, off)
                  /\ OwnRecord(issues[2], 3, off)
        /\ doc = Document(0, <<>>, <<>>, 0) => issues = <<>>

\* C8: no two records returned by one call of parse_markdown_file have the
\* same number (so no snapshot file issue-<number>.md is written twice).
C8_NumbersUnique ==
    pc = "parse_done" =>
        \A a, b \in 1..Len(issues) : a # b => issues[a].number # issues[b].number

\* positions of the commas of a labels text
CommaPos(raw) == {p \in 1..Len(raw) : raw[p] = "COMMA"}

\* the j-th piece of a labels text: what stands between its (j-1)-th and
\* its j-th comma
Piece(raw, j) ==
    LET cs == CommaPos(raw)
        before == {p \in cs : Cardinality({q \in cs : q < p}) = j - 2}
        after == {p \in cs : Cardinality({q \in cs : q < p}) = j - 1}
        lo == IF before = {} THEN 1 ELSE (CHOOSE p \in before : TRUE) + 1
        hi == IF after = {} THEN Len(raw) ELSE (CHOOSE p \in after : TRUE) - 1
    IN  SubSeq(raw, lo, hi)

\* label is piece without the white space around it and without the
\* backticks that then enclose it
IsTrimOf(label, piece) ==
    \E a, b \in 0..Len(piece) :
        /\ a + Len(label) + b = Len(piece)
        /\ SubSeq(piece, a + 1, a + Len(label)) = label
        /\ LET pre == SubSeq(piece, 1, a)
               suf == SubSeq(piece, a + Len(label) + 1, Len(piece))
           IN  /\ \A x \in 1..a : pre[x] = "BT" \/ IsWS(pre[x])
               /\ \A x, y \in 1..a : (x < y /\ pre[x] = "BT") => pre[y] = "BT"
               /\ \A x \in 1..b : suf[x] = "BT" \/ IsWS(suf[x])
               /\ \A x, y \in 1..b : (x < y /\ suf[y] = "BT") => suf[x] = "BT"
               /\ label # <<>> =>
                     /\ label[1] # "BT"
                     /\ label[Len(label)] # "BT"
                     /\ IsWS(label[1]) => \E x \in 1..a : pre[x] = "BT"
                     /\ IsWS(label[Len(label)]) => \E x \in 1..b : suf[x] = "BT"

\* C9: the labels of a record are the pieces of the raw labels text of its
\* block between the commas, each without the white space around it and
\* without the backticks enclosing it, in the order of the text and with
\* repeated labels kept; the text setup, infrastructure, priority:high
\* gives setup, infrastructure, priority:high.
C9_LabelsSplitTrimmedInOrder ==
    pc = "parse_done" =>
        LET ms == FindIter(doc, 1)
        IN  /\ Len(issues) = Len(ms)
            /\ \A i \in 1..Len(issues) :
                  LET raw == ms[i].g3
                      ls == issues[i].labels
                  IN  /\ Len(ls) = Cardinality(CommaPos(raw)) + 1
                      /\ \A j \in 1..Len(ls) : IsTrimOf(ls[j], Piece(raw, j))
                      /\ raw \in {LabelTexts[1], LabelTexts[2]} =>
                            ls = << <<"setup">>, <<"infrastructure">>, <<"priority:high">> >>
                      /\ raw = LabelTexts[3] => ls = << <<"pain">>, <<"pain">> >>
                      /\ raw = LabelTexts[4] => ls = << <<"core">>, <<"di">> >>

\* C9 witness: one call returned a record with the labels setup,
\* infrastructure, priority:high and a record with the label pain twice.
C9_Witness ==
    /\ pc = "parse_done"
    /\ \E i \in 1..Len(issues) :
          issues[i].labels = << <<"setup">>, <<"infrastructure">>, <<"priority:high">> >>
    /\ \E i \in 1..Len(issues) :
          issues[i].labels = << <<"pain">>, <<"pain">> >>

---------------------------------------------------------------------------
(* C11: the temporary body file *)

\* the records whose call of create_github_issue has returned
Returned == {submitted[i] : i \in 1..Len(submitted)}

\* C11: whenever a call of create_github_issue outside a dry run has
\* returned, whatever gh issue create did (exit status zero, another exit
\* status, timeout, another exception), the file temp-<number>.md of its record
\* does not exist
C11_TempFileGoneAfterReturn ==
    ~DRY_RUN => \A i \in Returned : issues[i].number \notin tempFiles

---------------------------------------------------------------------------
(* C12: the catalog's labels exist after create_all_labels *)

\* C12: outside a dry run, while no gh label command has failed, every label
\* of the catalog that create_all_labels has dealt with exists in the
\* repository, whatever labels the repository held at the start; so the create
\* command was skipped only for labels that were there under exactly that
\* name, and when create_all_labels has returned True the whole catalog exists
C12_CatalogLabelsExist ==
    (pc \in {"labels_call", "labels_done"} /\ ~DRY_RUN /\ ghFaults = 0)
        => \A i \in 1..labelIdx : HasLabel(LABELS[i], tracker)

=============================================================================
